---- MODULE Spec2Model ----
(***************************************************************************)
(* SmallGit (src/smallgit.py): a state machine of the repository state    *)
(* document .smallgit/repo_state.json and of the seven commands that load *)
(* it, transform it and save it back.                                      *)
(*                                                                         *)
(* A Python dict is modelled as the sequence of its <<key, value>> items   *)
(* in insertion order (dicts and their JSON serialisation keep that       *)
(* order); a Python list as a sequence.  Printed output is the sequence of *)
(* the printed lines.  An uncaught exception ends the command with a       *)
(* traceback line and without running the rest of the handler.             *)
(***************************************************************************)
EXTENDS Integers, Sequences, FiniteSets, TLC

\* ------------------------------------------------------------------ bounds
\* The number of invocations that run concurrently.
NumProcs == 2

\* The number of distinct instants datetime.now() returns in a run.  Only the
\* order and the equality of instants matter, so they are numbered
\* 1..MaxClock in the order in which they are read.
MaxClock == 2

\* The working-tree paths, file contents and commit messages that are tried.
Paths == {"x.txt", "y.txt"}
Contents == {"hello", "world"}
Messages == {"first"}

\* What a working-tree path can be besides a regular file with some content.
Absent == "<absent>"
Directory == "<directory>"

\* What each path is tried as: x.txt is a file that is edited, removed and
\* created again, y.txt a file that is replaced by a directory and back.
Kinds(path) ==
    IF path = "x.txt" THEN {Absent, "hello", "world"}
    ELSE {Directory, "hello"}

\* argparse's value for the omitted optional argument of `diff`.
None == "<None>"

VARIABLES
    dirExists,   \* os.path.exists(".smallgit")
    stateFile,   \* .smallgit/repo_state.json: [kind |-> "none"], [kind |-> "json", data |-> repo_data]
                 \* or [kind |-> "partial"] (truncated, or part of a document)
    fs,          \* the working tree: path -> Absent, Directory or the file's content
    clock,       \* the latest instant any datetime.now() has returned (0: none yet)
    args,        \* the command line of the latest invocation: [command, argv]
    out,         \* the lines the latest invocation printed
    inflight     \* the invocations running concurrently: process -> its position and locals

vars == <<dirExists, stateFile, fs, clock, args, out, inflight>>

\* ------------------------------------------------------------ Python dicts
dict_keys(d) == {d[i][1] : i \in DOMAIN d}

\* k in d
dict_has(d, k) == k \in dict_keys(d)

\* d[k]
dict_get(d, k) == d[CHOOSE i \in DOMAIN d : d[i][1] = k][2]

\* A faulty dict_set: the item is appended even when the key is present.
dict_set_append(d, k, v) == Append(d, <<k, v>>)

\* d[k] = v: an existing key keeps its position, a new key goes last.
dict_set(d, k, v) ==
    IF dict_has(d, k)
    THEN [i \in DOMAIN d |-> IF d[i][1] = k THEN <<k, v>> ELSE d[i]]
    ELSE Append(d, <<k, v>>)

\* A faulty reversed: the list as it is.
reversed_identity(l) == l

\* reversed(l)
reversed(l) == [i \in 1..Len(l) |-> l[Len(l) + 1 - i]]

\* ------------------------------------------------------------- exceptions
Traceback(exc) == "Traceback (most recent call last): " \o exc

Tracebacks == {Traceback("FileNotFoundError"), Traceback("IsADirectoryError"),
               Traceback("JSONDecodeError"), Traceback("OSError")}

\* The invocation ended in an uncaught exception.
Raised(lines) == lines # <<>> /\ lines[Len(lines)] \in Tracebacks

\* ---------------------------------------------------------------- hashing
\* hashlib.sha1(content).hexdigest() of the contents that are tried.
sha1_content(content) ==
    CASE content = "hello" -> "aaf4c61ddcc5e8a2dabede0f3b482cd9aea9434d"
      [] content = "world" -> "7c211433f02071597741e6ff5a8ea34789abbf43"

os_path_exists(file) == fs[file] # Absent

\* open(filepath, 'rb') fails on a missing path and on a directory.
hash_file_raises(filepath) == fs[filepath] \in {Absent, Directory}

hash_file_error(filepath) ==
    IF fs[filepath] = Absent THEN "FileNotFoundError" ELSE "IsADirectoryError"

hash_file(filepath) == sha1_content(fs[filepath])

\* str(datetime.now()) at instant t.
str_now(t) == "T" \o ToString(t)

\* hashlib.sha1(f"{message}{datetime.now()}".encode()).hexdigest(): SHA-1 is
\* taken to be collision free, so the digest is named by the string hashed.
commit_hash_of(message, t) == "sha1(" \o message \o str_now(t) \o ")"

\* ------------------------------------------------------------- state store
\* json.dump of the whole document over the previous contents.  For this
\* document shape (string keys, strings and lists as values) json.load gives
\* back the dumped value, item order included.
save_state(data) == [kind |-> "json", data |-> data]

\* open(..., 'r') raises when the document is missing, json.load when the
\* file does not hold a whole document.
load_raises == stateFile.kind # "json"

load_error ==
    IF stateFile.kind = "none" THEN "FileNotFoundError" ELSE "JSONDecodeError"

load_state == stateFile.data

\* ------------------------------------------------------------------- init
initial_repo_data ==
    [branches |-> << <<"main", <<>> >> >>,
     current_branch |-> "main",
     staging_area |-> <<>>,
     commits |-> <<>>]

\* A faulty init: no os.path.exists check, the document is always rewritten.
init_overwrite ==
    /\ args' = [command |-> "init", argv |-> <<>>]
    /\ dirExists' = TRUE
    /\ stateFile' = save_state(initial_repo_data)
    /\ out' = IF dirExists THEN <<"Repository already initialized.">>
              ELSE <<"Initialized empty SmallGit repository.">>
    /\ UNCHANGED <<fs, clock, inflight>>

\* A faulty init: "initialized" is decided from the state document.
init_checks_document ==
    /\ args' = [command |-> "init", argv |-> <<>>]
    /\ IF stateFile.kind = "json"
       THEN /\ out' = <<"Repository already initialized.">>
            /\ UNCHANGED <<dirExists, stateFile>>
       ELSE /\ dirExists' = TRUE
            /\ stateFile' = save_state(initial_repo_data)
            /\ out' = <<"Initialized empty SmallGit repository.">>
    /\ UNCHANGED <<fs, clock, inflight>>

init ==
    /\ args' = [command |-> "init", argv |-> <<>>]
    /\ IF dirExists
       THEN /\ out' = <<"Repository already initialized.">>
            /\ UNCHANGED <<dirExists, stateFile>>
       ELSE /\ dirExists' = TRUE
            /\ stateFile' = save_state(initial_repo_data)
            /\ out' = <<"Initialized empty SmallGit repository.">>
    /\ UNCHANGED <<fs, clock, inflight>>

\* ----------------------------------------------------------------- status
status_lines(repo_data) ==
    <<"On branch " \o repo_data.current_branch>> \o
    (IF repo_data.staging_area # <<>>
     THEN <<"Changes to be committed:">> \o
          [i \in DOMAIN repo_data.staging_area |-> "  " \o repo_data.staging_area[i][1]]
     ELSE <<"No changes to be committed.">>)

status ==
    /\ args' = [command |-> "status", argv |-> <<>>]
    /\ out' = IF load_raises THEN <<Traceback(load_error)>>
              ELSE status_lines(load_state)
    /\ UNCHANGED <<dirExists, stateFile, fs, clock, inflight>>

\* -------------------------------------------------------------------- add
\* A faulty add_loop: the loop ends at the first missing path.
RECURSIVE add_loop_break(_, _, _)
add_loop_break(repo_data, files, printed) ==
    IF files = <<>>
    THEN [repo_data |-> repo_data, out |-> printed, raised |-> FALSE]
    ELSE LET file == Head(files) IN
         IF os_path_exists(file)
         THEN IF hash_file_raises(file)
              THEN [repo_data |-> repo_data,
                    out |-> Append(printed, Traceback(hash_file_error(file))),
                    raised |-> TRUE]
              ELSE add_loop_break(
                     [repo_data EXCEPT !.staging_area = dict_set(@, file, hash_file(file))],
                     Tail(files),
                     Append(printed, "Added " \o file \o " to staging area."))
         ELSE [repo_data |-> repo_data,
               out |-> Append(printed, "File " \o file \o " not found."),
               raised |-> FALSE]

\* The loop of add over `files`: the document reached, the lines printed and
\* whether hash_file raised (which ends the loop and the invocation).
RECURSIVE add_loop(_, _, _)
add_loop(repo_data, files, printed) ==
    IF files = <<>>
    THEN [repo_data |-> repo_data, out |-> printed, raised |-> FALSE]
    ELSE LET file == Head(files) IN
         IF os_path_exists(file)
         THEN IF hash_file_raises(file)
              THEN [repo_data |-> repo_data,
                    out |-> Append(printed, Traceback(hash_file_error(file))),
                    raised |-> TRUE]
              ELSE add_loop(
                     [repo_data EXCEPT !.staging_area = dict_set(@, file, hash_file(file))],
                     Tail(files),
                     Append(printed, "Added " \o file \o " to staging area."))
         ELSE add_loop(repo_data, Tail(files),
                       Append(printed, "File " \o file \o " not found."))

\* A faulty add: a missing document is taken to be the initial one and the
\* storage directory is created for the save.
add_autoinit(files) ==
    /\ args' = [command |-> "add", argv |-> files]
    /\ LET r == add_loop(IF load_raises THEN initial_repo_data ELSE load_state,
                         files, <<>>) IN
       /\ out' = r.out
       /\ stateFile' = IF r.raised THEN stateFile ELSE save_state(r.repo_data)
       /\ dirExists' = (dirExists \/ ~r.raised)
    /\ UNCHANGED <<fs, clock, inflight>>

\* A faulty add: the save is in a `finally`, so it also runs when hash_file
\* raised.
add_saves_anyway(files) ==
    /\ args' = [command |-> "add", argv |-> files]
    /\ IF load_raises
       THEN /\ out' = <<Traceback(load_error)>>
            /\ UNCHANGED stateFile
       ELSE LET r == add_loop(load_state, files, <<>>) IN
            /\ out' = r.out
            /\ stateFile' = save_state(r.repo_data)
    /\ UNCHANGED <<dirExists, fs, clock, inflight>>

add(files) ==
    /\ args' = [command |-> "add", argv |-> files]
    /\ IF load_raises
       THEN /\ out' = <<Traceback(load_error)>>
            /\ UNCHANGED stateFile
       ELSE LET r == add_loop(load_state, files, <<>>) IN
            /\ out' = r.out
            /\ stateFile' = IF r.raised THEN stateFile ELSE save_state(r.repo_data)
    /\ UNCHANGED <<dirExists, fs, clock, inflight>>

\* ----------------------------------------------------------------- commit
\* A faulty commit_data: the commit is linked to the branch but not stored.
commit_data_unstored(repo_data, message, t1, t2) ==
    LET commit_hash == commit_hash_of(message, t1)
        current_branch == repo_data.current_branch
    IN  [repo_data EXCEPT
            !.branches = dict_set(@, current_branch,
                                  Append(dict_get(@, current_branch), commit_hash)),
            !.staging_area = <<>>]

\* A faulty commit_data: `changes` is the staging dict itself (no .copy())
\* and the staging area is emptied in place, which empties `changes` too.
commit_data_aliased(repo_data, message, t1, t2) ==
    LET commit_hash == commit_hash_of(message, t1)
        commit_rec == [message |-> message,
                       timestamp |-> str_now(t2),
                       changes |-> <<>>]
        current_branch == repo_data.current_branch
    IN  [repo_data EXCEPT
            !.commits = dict_set(@, commit_hash, commit_rec),
            !.branches = dict_set(@, current_branch,
                                  Append(dict_get(@, current_branch), commit_hash)),
            !.staging_area = <<>>]

\* A faulty commit_data: the branch is set to the new commit alone.
commit_data_reset_branch(repo_data, message, t1, t2) ==
    LET commit_hash == commit_hash_of(message, t1)
        commit_rec == [message |-> message,
                       timestamp |-> str_now(t2),
                       changes |-> repo_data.staging_area]
        current_branch == repo_data.current_branch
    IN  [repo_data EXCEPT
            !.commits = dict_set(@, commit_hash, commit_rec),
            !.branches = dict_set(@, current_branch, <<commit_hash>>),
            !.staging_area = <<>>]

\* A faulty commit_data: the staging area is not cleared.
commit_data_keeps_staging(repo_data, message, t1, t2) ==
    LET commit_hash == commit_hash_of(message, t1)
        commit_rec == [message |-> message,
                       timestamp |-> str_now(t2),
                       changes |-> repo_data.staging_area]
        current_branch == repo_data.current_branch
    IN  [repo_data EXCEPT
            !.commits = dict_set(@, commit_hash, commit_rec),
            !.branches = dict_set(@, current_branch,
                                  Append(dict_get(@, current_branch), commit_hash))]

\* The document after a commit of `message` whose two datetime.now() calls
\* returned t1 (hashed into the identifier) and t2 (the timestamp).  The
\* first call of an invocation returns an instant later than every instant
\* read by the invocations before it; the second call returns the same
\* instant or a later one.
commit_data(repo_data, message, t1, t2) ==
    LET commit_hash == commit_hash_of(message, t1)
        commit_rec == [message |-> message,
                       timestamp |-> str_now(t2),
                       changes |-> repo_data.staging_area]
        current_branch == repo_data.current_branch
    IN  [repo_data EXCEPT
            !.commits = dict_set(@, commit_hash, commit_rec),
            !.branches = dict_set(@, current_branch,
                                  Append(dict_get(@, current_branch), commit_hash)),
            !.staging_area = <<>>]

\* commit_hash[:7]: the abbreviation printed is a function of the identifier.
short_hash(commit_hash) == "[" \o commit_hash \o "[:7]]"

\* A faulty commit: no "nothing to commit" check.
commit_unguarded(message) ==
    /\ args' = [command |-> "commit", argv |-> <<message>>]
    /\ IF load_raises
       THEN /\ out' = <<Traceback(load_error)>>
            /\ UNCHANGED <<stateFile, clock>>
       ELSE \E t1 \in {t \in {clock + 1} : t <= MaxClock} :
            \E t2 \in {t \in {t1, t1 + 1} : t <= MaxClock} :
                /\ stateFile' = save_state(commit_data(load_state, message, t1, t2))
                /\ clock' = t2
                /\ out' = <<short_hash(commit_hash_of(message, t1)) \o " " \o message>>
    /\ UNCHANGED <<dirExists, fs, inflight>>

commit(message) ==
    /\ args' = [command |-> "commit", argv |-> <<message>>]
    /\ IF load_raises
       THEN /\ out' = <<Traceback(load_error)>>
            /\ UNCHANGED <<stateFile, clock>>
       ELSE IF load_state.staging_area = <<>>
       THEN /\ out' = <<"No changes to commit.">>
            /\ UNCHANGED <<stateFile, clock>>
       ELSE \E t1 \in {t \in {clock + 1} : t <= MaxClock} :
            \E t2 \in {t \in {t1, t1 + 1} : t <= MaxClock} :
                /\ stateFile' = save_state(commit_data(load_state, message, t1, t2))
                /\ clock' = t2
                /\ out' = <<short_hash(commit_hash_of(message, t1)) \o " " \o message>>
    /\ UNCHANGED <<dirExists, fs, inflight>>

\* -------------------------------------------------------------------- log
\* The lines printed for one commit of the history.
log_entry(repo_data, commit_hash) ==
    LET commit_rec == dict_get(repo_data.commits, commit_hash) IN
    <<"commit " \o commit_hash,
      "Author: You <you@example.com>",
      "Date: " \o commit_rec.timestamp,
      "\n    " \o commit_rec.message \o "\n">>

RECURSIVE log_loop(_, _, _)
log_loop(repo_data, hashes, printed) ==
    IF hashes = <<>>
    THEN printed
    ELSE log_loop(repo_data, Tail(hashes),
                  printed \o log_entry(repo_data, Head(hashes)))

log_lines(repo_data) ==
    LET current_branch == repo_data.current_branch
        history == dict_get(repo_data.branches, current_branch)
    IN  IF history # <<>>
        THEN log_loop(repo_data, reversed(history),
                      <<"Commit history for branch " \o current_branch \o ":">>)
        ELSE <<"No commits yet on this branch.">>

log ==
    /\ args' = [command |-> "log", argv |-> <<>>]
    /\ out' = IF load_raises THEN <<Traceback(load_error)>>
              ELSE log_lines(load_state)
    /\ UNCHANGED <<dirExists, stateFile, fs, clock, inflight>>

\* --------------------------------------------------------------- checkout
\* A faulty checkout_data: the token is made current without any lookup.
checkout_data_unchecked(repo_data, branch_or_commit) ==
    [repo_data EXCEPT !.current_branch = branch_or_commit]

\* A faulty checkout_data: a commit match is made current too ("detached").
checkout_data_detached(repo_data, branch_or_commit) ==
    IF \/ dict_has(repo_data.branches, branch_or_commit)
       \/ dict_has(repo_data.commits, branch_or_commit)
    THEN [repo_data EXCEPT !.current_branch = branch_or_commit]
    ELSE repo_data

\* A faulty checkout_data: an unknown token is made current.
checkout_data_unknown(repo_data, branch_or_commit) ==
    IF dict_has(repo_data.commits, branch_or_commit)
    THEN repo_data
    ELSE [repo_data EXCEPT !.current_branch = branch_or_commit]

checkout_data(repo_data, branch_or_commit) ==
    IF dict_has(repo_data.branches, branch_or_commit)
    THEN [repo_data EXCEPT !.current_branch = branch_or_commit]
    ELSE repo_data

checkout_lines(repo_data, branch_or_commit) ==
    IF dict_has(repo_data.branches, branch_or_commit)
    THEN <<"Switched to branch '" \o branch_or_commit \o "'">>
    ELSE IF dict_has(repo_data.commits, branch_or_commit)
    THEN <<"Checked out commit " \o branch_or_commit>>
    ELSE <<"Branch or commit " \o branch_or_commit \o " not found.">>

checkout(branch_or_commit) ==
    /\ args' = [command |-> "checkout", argv |-> <<branch_or_commit>>]
    /\ IF load_raises
       THEN /\ out' = <<Traceback(load_error)>>
            /\ UNCHANGED stateFile
       ELSE /\ out' = checkout_lines(load_state, branch_or_commit)
            /\ stateFile' = save_state(checkout_data(load_state, branch_or_commit))
    /\ UNCHANGED <<dirExists, fs, clock, inflight>>

\* ------------------------------------------------------------------- diff
diff_line(staged_hash, current_hash, changed, unchanged) ==
    IF current_hash # staged_hash THEN changed ELSE unchanged

\* The loop of diff() over the staged paths from item i on.
RECURSIVE diff_loop(_, _, _)
diff_loop(staging_area, i, printed) ==
    IF i > Len(staging_area)
    THEN printed
    ELSE LET file == staging_area[i][1]
             staged_hash == staging_area[i][2]
         IN  IF hash_file_raises(file)
             THEN Append(printed, Traceback(hash_file_error(file)))
             ELSE diff_loop(staging_area, i + 1,
                    Append(printed,
                           diff_line(staged_hash, hash_file(file),
                                     file \o " has changed.",
                                     "No changes in " \o file \o ".")))

diff_lines(repo_data, target) ==
    IF target \notin {None, ""}
    THEN IF dict_has(repo_data.staging_area, target)
         THEN IF hash_file_raises(target)
              THEN <<Traceback(hash_file_error(target))>>
              ELSE <<diff_line(dict_get(repo_data.staging_area, target),
                               hash_file(target),
                               "File " \o target \o " has changed since it was staged.",
                               "No changes in " \o target \o ".")>>
         ELSE <<"File " \o target \o " is not staged.">>
    ELSE diff_loop(repo_data.staging_area, 1,
                   <<"Comparing current files to staging area:">>)

\* A faulty diff: the digest computed for the target is staged and saved.
diff_restage(target) ==
    /\ args' = [command |-> "diff", argv |-> IF target = None THEN <<>> ELSE <<target>>]
    /\ out' = IF load_raises THEN <<Traceback(load_error)>>
              ELSE diff_lines(load_state, target)
    /\ stateFile' =
         IF /\ ~load_raises
            /\ target # None
            /\ dict_has(load_state.staging_area, target)
            /\ ~hash_file_raises(target)
         THEN save_state([load_state EXCEPT
                            !.staging_area = dict_set(@, target, hash_file(target))])
         ELSE stateFile
    /\ UNCHANGED <<dirExists, fs, clock, inflight>>

diff(target) ==
    /\ args' = [command |-> "diff", argv |-> IF target = None THEN <<>> ELSE <<target>>]
    /\ out' = IF load_raises THEN <<Traceback(load_error)>>
              ELSE diff_lines(load_state, target)
    /\ UNCHANGED <<dirExists, stateFile, fs, clock, inflight>>

\* ------------------------------------------------------- the working tree
\* The user creates, edits, removes or replaces a working-tree path between
\* two invocations.
WriteFile(path, content) ==
    /\ fs[path] # content
    /\ fs' = [fs EXCEPT ![path] = content]
    /\ args' = [command |-> "(edit)", argv |-> <<path>>]
    /\ out' = <<>>
    /\ UNCHANGED <<dirExists, stateFile, clock, inflight>>

\* ---------------------------------------------------------- specification
\* The lists of paths `add` is given: nargs="+", so at least one.
FileLists == {<<"x.txt">>, <<"y.txt">>, <<"x.txt", "y.txt">>, <<"y.txt", "x.txt">>}

\* The tokens `checkout` is given: the branch, an unknown name and the
\* identifier the first commit gets (unknown until that commit is made).
Tokens == {"main", "dev"} \cup {commit_hash_of(m, 1) : m \in Messages}

Init ==
    /\ dirExists = FALSE
    /\ stateFile = [kind |-> "none"]
    /\ fs \in {f \in [Paths -> Contents \cup {Absent, Directory}] :
                  \A path \in Paths : f[path] \in Kinds(path)}
    /\ clock = 0
    /\ args = [command |-> "(none)", argv |-> <<>>]
    /\ out = <<>>
    /\ inflight = <<>>

Next ==
    \/ init
    \/ status
    \/ \E files \in FileLists : add(files)
    \/ \E message \in Messages : commit(message)
    \/ log
    \/ \E branch_or_commit \in Tokens : checkout(branch_or_commit)
    \/ \E target \in Paths \cup {None} : diff(target)
    \/ \E path \in Paths : \E content \in Kinds(path) : WriteFile(path, content)

Spec == Init /\ [][Next]_vars

\* --------------------------------------------------- the x.txt scenario
\* init, add x.txt (content "hello"), commit -m first, x.txt edited to
\* "world", and then the commands that report; the reporting commands,
\* checkout, a repeated init and edits of y.txt may come at any point.
InitScenario == Init /\ fs["x.txt"] = "hello"

ScenarioAdd ==
    /\ stateFile.kind = "json"
    /\ stateFile.data.commits = <<>>
    /\ stateFile.data.staging_area = <<>>
    /\ add(<<"x.txt">>)

ScenarioCommit ==
    /\ stateFile.kind = "json"
    /\ stateFile.data.commits = <<>>
    /\ stateFile.data.staging_area # <<>>
    /\ commit("first")

ScenarioModify ==
    /\ stateFile.kind = "json"
    /\ stateFile.data.commits # <<>>
    /\ WriteFile("x.txt", "world")

NextScenario ==
    \/ init
    \/ ScenarioAdd
    \/ ScenarioCommit
    \/ ScenarioModify
    \/ status
    \/ log
    \/ \E target \in Paths \cup {None} : diff(target)
    \/ \E branch_or_commit \in Tokens : checkout(branch_or_commit)
    \/ \E content \in Kinds("y.txt") : WriteFile("y.txt", content)

SpecScenario == InitScenario /\ [][NextScenario]_vars

\* ----------------------------------------------------------- failing saves
\* What save_state leaves in the file when it does not complete: open(..., 'w')
\* failed and the file is as it was, or open truncated the file and json.dump
\* failed or was interrupted, leaving a proper prefix of the document (which
\* never parses: the outermost brace is closed by the last character).
save_state_failures == {stateFile, [kind |-> "partial"]}

\* init whose save fails: the directory is made, the message is not printed.
init_save_fails ==
    /\ ~dirExists
    /\ args' = [command |-> "init", argv |-> <<>>]
    /\ dirExists' = TRUE
    /\ stateFile' \in save_state_failures
    /\ out' = <<Traceback("OSError")>>
    /\ UNCHANGED <<fs, clock, inflight>>

\* add whose save fails, after the loop printed its lines.
add_save_fails(files) ==
    /\ ~load_raises
    /\ ~add_loop(load_state, files, <<>>).raised
    /\ args' = [command |-> "add", argv |-> files]
    /\ stateFile' \in save_state_failures
    /\ out' = Append(add_loop(load_state, files, <<>>).out, Traceback("OSError"))
    /\ UNCHANGED <<dirExists, fs, clock, inflight>>

\* commit whose save fails: both instants were read, nothing is printed.
commit_save_fails(message) ==
    /\ ~load_raises
    /\ load_state.staging_area # <<>>
    /\ args' = [command |-> "commit", argv |-> <<message>>]
    /\ \E t1 \in {t \in {clock + 1} : t <= MaxClock} :
       \E t2 \in {t \in {t1, t1 + 1} : t <= MaxClock} :
           clock' = t2
    /\ stateFile' \in save_state_failures
    /\ out' = <<Traceback("OSError")>>
    /\ UNCHANGED <<dirExists, fs, inflight>>

\* checkout whose save fails, after its line was printed.
checkout_save_fails(branch_or_commit) ==
    /\ ~load_raises
    /\ args' = [command |-> "checkout", argv |-> <<branch_or_commit>>]
    /\ stateFile' \in save_state_failures
    /\ out' = Append(checkout_lines(load_state, branch_or_commit), Traceback("OSError"))
    /\ UNCHANGED <<dirExists, fs, clock, inflight>>

\* y.txt stays a regular file here and x.txt is edited as before; add is
\* given x.txt alone or x.txt and y.txt.
InitFault == Init /\ fs["y.txt"] = "hello"

FaultFileLists == {<<"x.txt">>, <<"x.txt", "y.txt">>}

NextFault ==
    \/ init
    \/ status
    \/ \E files \in FaultFileLists : add(files)
    \/ \E message \in Messages : commit(message)
    \/ log
    \/ \E branch_or_commit \in Tokens : checkout(branch_or_commit)
    \/ \E target \in Paths \cup {None} : diff(target)
    \/ \E content \in Kinds("x.txt") : WriteFile("x.txt", content)
    \/ init_save_fails
    \/ \E files \in FaultFileLists : add_save_fails(files)
    \/ \E message \in Messages : commit_save_fails(message)
    \/ \E branch_or_commit \in Tokens : checkout_save_fails(branch_or_commit)

SpecFault == InitFault /\ [][NextFault]_vars

\* ------------------------------------------------ concurrent invocations
\* NumProcs invocations of add, commit or checkout run at once on an
\* initialized repository.  Each is two atomic steps: its load_state, and the
\* rest of the handler with its save_state.  Nothing orders the steps of two
\* invocations: the code takes no lock.
Procs == 1..NumProcs

\* The documents the invocations start from: the one init writes, and the
\* one after add x.txt (content "hello").
ConcDocs ==
    {initial_repo_data,
     [initial_repo_data EXCEPT
        !.staging_area = << <<"x.txt", sha1_content("hello")>> >>]}

ConcCommands ==
    {[command |-> "add", argv |-> <<"x.txt">>],
     [command |-> "add", argv |-> <<"y.txt">>],
     [command |-> "commit", argv |-> <<"first">>],
     [command |-> "checkout", argv |-> <<"main">>],
     [command |-> "checkout", argv |-> <<"dev">>]}

\* An invocation not started yet.  Of a started one: its command line, the
\* document it loaded (repo_data), whether and as which save in order it has
\* saved (seq, 0: not), the document it saved (result), the processes that
\* had saved before it loaded (seen), and the lines it printed.
Idle ==
    [pc |-> "idle", command |-> "(none)", argv |-> <<>>,
     repo_data |-> initial_repo_data, result |-> initial_repo_data,
     seq |-> 0, seen |-> {}, out |-> <<>>]

\* The number of saves made so far.
saves == Cardinality({q \in Procs : inflight[q].seq > 0})

\* A faulty snapshot: the document is read again when the handler saves.
snapshot_fresh(p) == stateFile.data

\* A faulty snapshot: the branch table is read again when the handler saves,
\* the rest is what was loaded.
snapshot_mixed(p) ==
    [inflight[p].repo_data EXCEPT !.branches = stateFile.data.branches]

\* The local repo_data the handler of p works on: what its load returned.
snapshot(p) == inflight[p].repo_data

\* repo_data = load_state("."), the first statement of the handler.
Load(p, cmd) ==
    /\ inflight[p].pc = "idle"
    /\ ~load_raises
    /\ inflight' = [inflight EXCEPT ![p] =
          [pc |-> "loaded", command |-> cmd.command, argv |-> cmd.argv,
           repo_data |-> load_state, result |-> load_state,
           seq |-> 0, seen |-> {q \in Procs : inflight[q].seq > 0},
           out |-> <<>>]]
    /\ UNCHANGED <<dirExists, stateFile, fs, clock, args, out>>

\* p ends without a save, having printed `lines`.
EndsUnsaved(p, lines) ==
    /\ inflight' = [inflight EXCEPT ![p].pc = "done", ![p].out = lines]
    /\ UNCHANGED <<stateFile, clock>>

\* p saves `data`, prints `lines` and ends.
EndsSaved(p, data, lines) ==
    /\ stateFile' = save_state(data)
    /\ inflight' = [inflight EXCEPT ![p].pc = "done", ![p].out = lines,
                                    ![p].result = data, ![p].seq = saves + 1]

\* The rest of add after its load.
FinishAdd(p) ==
    /\ inflight[p].pc = "loaded"
    /\ inflight[p].command = "add"
    /\ LET r == add_loop(snapshot(p), inflight[p].argv, <<>>) IN
       IF r.raised
       THEN EndsUnsaved(p, r.out)
       ELSE EndsSaved(p, r.repo_data, r.out) /\ UNCHANGED clock
    /\ UNCHANGED <<dirExists, fs, args, out>>

\* The rest of commit after its load.
FinishCommit(p) ==
    /\ inflight[p].pc = "loaded"
    /\ inflight[p].command = "commit"
    /\ LET message == inflight[p].argv[1] IN
       IF snapshot(p).staging_area = <<>>
       THEN EndsUnsaved(p, <<"No changes to commit.">>)
       ELSE \E t1 \in {t \in {clock + 1} : t <= MaxClock} :
            \E t2 \in {t \in {t1, t1 + 1} : t <= MaxClock} :
                /\ EndsSaved(p, commit_data(snapshot(p), message, t1, t2),
                             <<short_hash(commit_hash_of(message, t1)) \o " " \o message>>)
                /\ clock' = t2
    /\ UNCHANGED <<dirExists, fs, args, out>>

\* The rest of checkout after its load.
FinishCheckout(p) ==
    /\ inflight[p].pc = "loaded"
    /\ inflight[p].command = "checkout"
    /\ EndsSaved(p, checkout_data(snapshot(p), inflight[p].argv[1]),
                 checkout_lines(snapshot(p), inflight[p].argv[1]))
    /\ UNCHANGED <<dirExists, fs, clock, args, out>>

InitConc ==
    /\ dirExists = TRUE
    /\ stateFile \in {save_state(d) : d \in ConcDocs}
    /\ fs \in {f \in [Paths -> Contents \cup {Absent, Directory}] :
                  f["x.txt"] = "hello" /\ f["y.txt"] \in Kinds("y.txt")}
    /\ clock = 0
    /\ args = [command |-> "(none)", argv |-> <<>>]
    /\ out = <<>>
    /\ inflight = [p \in Procs |-> Idle]

NextConc ==
    \E p \in Procs :
        \/ \E cmd \in ConcCommands : Load(p, cmd)
        \/ FinishAdd(p)
        \/ FinishCommit(p)
        \/ FinishCheckout(p)

SpecConc == InitConc /\ [][NextConc]_vars

\* ------------------------------------------------------------- properties
\* The state document exists and parses (the repository is initialized).
Initialized == stateFile.kind = "json"

\* The persisted document.
repo == stateFile.data

IsPrefix(s, t) == Len(s) <= Len(t) /\ \A i \in 1..Len(s) : t[i] = s[i]

\* The step is an invocation of `command`.
Ran(command) == args'.command = command

\* The step is a commit that found something staged.
CommitsStaged == Initialized /\ Ran("commit") /\ repo.staging_area # <<>>

\* C1: in every state reached by sequential invocations, every commit
\* identifier in any branch sequence of the persisted document is a key of
\* `commits`.
C1_BranchIdsAreCommits ==
    Initialized =>
        \A i \in DOMAIN repo.branches :
            \A j \in DOMAIN repo.branches[i][2] :
                dict_has(repo.commits, repo.branches[i][2][j])

\* Two commits were made on main.
C1_Witness ==
    /\ Initialized
    /\ Len(dict_get(repo.branches, "main")) = 2
    /\ Len(repo.commits) = 2

\* C2: on an initialized repository `current_branch` is always a key of
\* `branches`, whatever token checkout was given.
C2_CurrentBranchIsBranch ==
    Initialized => dict_has(repo.branches, repo.current_branch)

\* checkout was just given the identifier of an existing commit.
C2_Witness ==
    /\ Initialized
    /\ args.command = "checkout"
    /\ dict_has(repo.commits, args.argv[1])
    /\ repo.current_branch = "main"

\* C3: a commit that finds something staged leaves the staging area empty and
\* stores exactly one new commit whose `changes` is the staging map as it was
\* before the commit; any add or commit leaves the `changes` of every commit
\* already stored as they were.
C3_CommitSnapshotsStaging ==
    [][ /\ CommitsStaged =>
            /\ repo'.staging_area = <<>>
            /\ LET new == dict_keys(repo'.commits) \ dict_keys(repo.commits) IN
                /\ Cardinality(new) = 1
                /\ \A id \in new :
                      dict_get(repo'.commits, id).changes = repo.staging_area
        /\ (Initialized /\ (Ran("add") \/ Ran("commit"))) =>
            \A id \in dict_keys(repo.commits) :
                /\ dict_has(repo'.commits, id)
                /\ dict_get(repo'.commits, id).changes = dict_get(repo.commits, id).changes
      ]_vars

\* x.txt was committed with one digest and has since been staged again with
\* another one: the stored commit still has the old digest.
C3_Witness ==
    /\ Initialized
    /\ args.command = "add"
    /\ dict_has(repo.staging_area, "x.txt")
    /\ \E i \in DOMAIN repo.commits :
          /\ dict_has(repo.commits[i][2].changes, "x.txt")
          /\ dict_get(repo.commits[i][2].changes, "x.txt")
               # dict_get(repo.staging_area, "x.txt")

\* C4: commit with an empty staging area leaves the whole persisted document
\* (commits, branches, current_branch, staging_area) as it was.
C4_EmptyCommitChangesNothing ==
    [][ (Initialized /\ Ran("commit") /\ repo.staging_area = <<>>) =>
            /\ stateFile' = stateFile
            /\ out' = <<"No changes to commit.">>
      ]_vars

\* commit just ran with nothing staged, on a repository that has a commit.
C4_Witness ==
    /\ Initialized
    /\ args.command = "commit"
    /\ out = <<"No changes to commit.">>
    /\ repo.commits # <<>>

\* C5: commits are append-only.  In every step, every stored commit stays
\* stored with the same message, timestamp and changes, and every branch
\* sequence keeps its earlier value as a prefix; a commit that finds something
\* staged appends one new identifier to the current branch and to no other,
\* and every other command leaves `commits` and `branches` as they were.
C5_CommitsAppendOnly ==
    [][ Initialized =>
        /\ Initialized'
        /\ IF CommitsStaged
           THEN /\ \A id \in dict_keys(repo.commits) :
                     /\ dict_has(repo'.commits, id)
                     /\ dict_get(repo'.commits, id) = dict_get(repo.commits, id)
                /\ dict_keys(repo'.branches) = dict_keys(repo.branches)
                /\ \A b \in dict_keys(repo.branches) :
                     IsPrefix(dict_get(repo.branches, b), dict_get(repo'.branches, b))
                /\ \E id \in dict_keys(repo'.commits) \ dict_keys(repo.commits) :
                     /\ dict_keys(repo'.commits) = dict_keys(repo.commits) \cup {id}
                     /\ \A b \in dict_keys(repo.branches) :
                           dict_get(repo'.branches, b) =
                               IF b = repo.current_branch
                               THEN Append(dict_get(repo.branches, b), id)
                               ELSE dict_get(repo.branches, b)
           ELSE /\ repo'.commits = repo.commits
                /\ repo'.branches = repo.branches
      ]_vars

\* A second commit was just appended after the first one.
C5_Witness ==
    /\ Initialized
    /\ args.command = "commit"
    /\ Len(dict_get(repo.branches, repo.current_branch)) = 2
    /\ repo.staging_area = <<>>

\* C6: checkout with a token that is neither a branch name nor a commit
\* identifier reports not-found and leaves the persisted document, which it
\* saves again, exactly as it was.
C6_UnknownCheckoutChangesNothing ==
    [][ (/\ Initialized
         /\ Ran("checkout")
         /\ ~dict_has(repo.branches, args'.argv[1])
         /\ ~dict_has(repo.commits, args'.argv[1])) =>
            /\ stateFile' = stateFile
            /\ out' = <<"Branch or commit " \o args'.argv[1] \o " not found.">>
      ]_vars

\* checkout was just given an unknown name while a file was staged and a
\* commit stored.
C6_Witness ==
    /\ Initialized
    /\ args = [command |-> "checkout", argv |-> <<"dev">>]
    /\ out = <<"Branch or commit dev not found.">>
    /\ repo.staging_area # <<>>
    /\ repo.commits # <<>>

\* C7: checkout with a branch name sets `current_branch` to it and changes no
\* other field (also when a commit has the same name); checkout with a commit
\* identifier that is no branch name changes no field at all.
C7_CheckoutCommitIsView ==
    [][ (Initialized /\ Ran("checkout")) =>
            LET token == args'.argv[1] IN
            /\ dict_has(repo.branches, token) =>
                  /\ Initialized'
                  /\ repo'.current_branch = token
                  /\ repo'.branches = repo.branches
                  /\ repo'.staging_area = repo.staging_area
                  /\ repo'.commits = repo.commits
                  /\ out' = <<"Switched to branch '" \o token \o "'">>
            /\ (~dict_has(repo.branches, token) /\ dict_has(repo.commits, token)) =>
                  /\ stateFile' = stateFile
                  /\ out' = <<"Checked out commit " \o token>>
      ]_vars

\* checkout just reported the view of a stored commit.
C7_Witness ==
    /\ Initialized
    /\ args.command = "checkout"
    /\ out = <<"Checked out commit " \o args.argv[1]>>
    /\ args.argv[1] \in dict_keys(repo.commits) \ dict_keys(repo.branches)

\* C8: add of a list in which every existing path is a regular file stages
\* every existing path with its current digest, reports every missing path
\* and leaves its staging entry (present or absent) as it was, goes on past a
\* missing path (one line is printed per path), and touches nothing else of
\* the persisted document.
C8_AddPartialSuccess ==
    [][ (/\ Initialized
         /\ Ran("add")
         /\ \A i \in DOMAIN args'.argv : fs[args'.argv[i]] # Directory) =>
            LET files == args'.argv
                listed == {files[i] : i \in DOMAIN files}
                found == {f \in listed : fs[f] # Absent}
            IN
            /\ Initialized'
            /\ Len(out') = Len(files)
            /\ \A i \in DOMAIN files :
                  out'[i] = IF files[i] \in found
                            THEN "Added " \o files[i] \o " to staging area."
                            ELSE "File " \o files[i] \o " not found."
            /\ dict_keys(repo'.staging_area) = dict_keys(repo.staging_area) \cup found
            /\ \A f \in found :
                  dict_get(repo'.staging_area, f) = sha1_content(fs[f])
            /\ \A f \in dict_keys(repo.staging_area) \ found :
                  dict_get(repo'.staging_area, f) = dict_get(repo.staging_area, f)
            /\ repo'.branches = repo.branches
            /\ repo'.current_branch = repo.current_branch
            /\ repo'.commits = repo.commits
      ]_vars

\* add x.txt y.txt just ran with x.txt missing (and staged earlier) and
\* y.txt present: y.txt was staged after the report on x.txt.
C8_Witness ==
    /\ Initialized
    /\ args = [command |-> "add", argv |-> <<"x.txt", "y.txt">>]
    /\ fs["x.txt"] = Absent
    /\ out = <<"File x.txt not found.", "Added y.txt to staging area.">>
    /\ repo.staging_area = << <<"x.txt", sha1_content("hello")>>,
                              <<"y.txt", sha1_content("hello")>> >>

\* C9: an add repeated with the same paths and no edit in between leaves the
\* persisted document as the first add left it; an add of one staged regular
\* file sets its staged digest to the current one and leaves every other
\* staged item, and the order of the items, as they were.
C9_AddIdempotent ==
    [][ /\ (/\ Initialized
             /\ args.command = "add"
             /\ Ran("add")
             /\ args'.argv = args.argv) =>
                stateFile' = stateFile
        /\ (/\ Initialized
             /\ Ran("add")
             /\ Len(args'.argv) = 1
             /\ fs[args'.argv[1]] \in Contents
             /\ dict_has(repo.staging_area, args'.argv[1])) =>
                LET f == args'.argv[1] IN
                /\ Len(repo'.staging_area) = Len(repo.staging_area)
                /\ \A i \in DOMAIN repo.staging_area :
                      repo'.staging_area[i] =
                          IF repo.staging_area[i][1] = f
                          THEN <<f, sha1_content(fs[f])>>
                          ELSE repo.staging_area[i]
      ]_vars

\* x.txt, staged first and before y.txt, was just added again and holds the
\* digest of its edited content.
C9_Witness ==
    /\ Initialized
    /\ args = [command |-> "add", argv |-> <<"x.txt">>]
    /\ fs["x.txt"] = "world"
    /\ repo.staging_area = << <<"x.txt", sha1_content("world")>>,
                              <<"y.txt", sha1_content("hello")>> >>

\* C10: init on an initialized repository reports already-initialized and
\* leaves the persisted document exactly as it was.
C10_InitAgainIsNoOp ==
    [][ (Initialized /\ Ran("init")) =>
            /\ stateFile' = stateFile
            /\ dirExists'
            /\ out' = <<"Repository already initialized.">>
      ]_vars

\* init just ran on a repository with a commit and a staged file.
C10_Witness ==
    /\ Initialized
    /\ args.command = "init"
    /\ out = <<"Repository already initialized.">>
    /\ repo.commits # <<>>
    /\ repo.staging_area # <<>>

\* The commands that load the state document.
LoadingCommands == {"status", "add", "commit", "log", "checkout", "diff"}

\* C11: in the uninitialized state every command except init fails (the
\* load raises FileNotFoundError) and creates neither the storage directory
\* nor the state document.
C11_UninitializedCommandsFail ==
    [][ (/\ ~dirExists
         /\ stateFile.kind = "none"
         /\ args'.command \in LoadingCommands) =>
            /\ out' = <<Traceback("FileNotFoundError")>>
            /\ ~dirExists'
            /\ stateFile' = stateFile
      ]_vars

\* add of an existing file was just tried before any init.
C11_Witness ==
    /\ ~dirExists
    /\ stateFile.kind = "none"
    /\ args = [command |-> "add", argv |-> <<"y.txt">>]
    /\ fs["y.txt"] = "hello"
    /\ Raised(out)

\* C13 (as claimed): after diff with no target, every staged path that is a
\* regular file has its report, changed or unchanged, also when another
\* staged path is missing from the working tree.
C13_DiffComparesEveryPath ==
    (/\ Initialized
     /\ args = [command |-> "diff", argv |-> <<>>]
     /\ \A i \in DOMAIN repo.staging_area : fs[repo.staging_area[i][1]] # Directory) =>
        \A i \in DOMAIN repo.staging_area :
            LET file == repo.staging_area[i][1] IN
            fs[file] \in Contents =>
                \E k \in DOMAIN out :
                    out[k] \in {file \o " has changed.", "No changes in " \o file \o "."}

\* C15: log prints the commits of the current branch last appended first,
\* each once (four lines per commit after the heading), and says so when the
\* branch has no commit.
C15_LogNewestFirst ==
    (Initialized /\ args.command = "log") =>
        LET history == dict_get(repo.branches, repo.current_branch)
            n == Len(history)
        IN  IF n = 0
            THEN out = <<"No commits yet on this branch.">>
            ELSE /\ Len(out) = 1 + 4 * n
                 /\ out[1] = "Commit history for branch " \o repo.current_branch \o ":"
                 /\ \A k \in 1..n :
                       /\ out[4 * k - 2] = "commit " \o history[n + 1 - k]
                       /\ out[4 * k] =
                            "Date: " \o dict_get(repo.commits, history[n + 1 - k]).timestamp

\* log just ran on a branch with two commits.
C15_Witness ==
    /\ Initialized
    /\ args.command = "log"
    /\ Len(dict_get(repo.branches, repo.current_branch)) = 2
    /\ Len(out) = 9

\* C16: status, log and diff, with or without a target, leave the storage
\* directory and the persisted document as they were, whatever the working
\* tree holds.
C16_ReadOnlyCommands ==
    [][ (args'.command \in {"status", "log", "diff"}) =>
            /\ stateFile' = stateFile
            /\ dirExists' = dirExists
            /\ fs' = fs
      ]_vars

\* diff x.txt just found the staged file changed: the staged digest is still
\* the old one.
C16_Witness ==
    /\ Initialized
    /\ args = [command |-> "diff", argv |-> <<"x.txt">>]
    /\ out = <<"File x.txt has changed since it was staged.">>
    /\ dict_get(repo.staging_area, "x.txt") # sha1_content(fs["x.txt"])

\* C19: an add whose list holds a path that exists and cannot be hashed (a
\* directory) ends in the exception and saves nothing: the persisted document
\* is as before, also for the paths handled earlier in the list.
C19_AddAbortsWhole ==
    [][ (/\ Initialized
         /\ Ran("add")
         /\ \E i \in DOMAIN args'.argv : fs[args'.argv[i]] = Directory) =>
            /\ stateFile' = stateFile
            /\ Raised(out')
      ]_vars

\* add x.txt y.txt just ran with x.txt a file not staged before and y.txt a
\* directory: x.txt was reported as added and is not staged.
C19_Witness ==
    /\ Initialized
    /\ args = [command |-> "add", argv |-> <<"x.txt", "y.txt">>]
    /\ fs["x.txt"] \in Contents
    /\ fs["y.txt"] = Directory
    /\ out = <<"Added x.txt to staging area.", Traceback("IsADirectoryError")>>
    /\ ~dict_has(repo.staging_area, "x.txt")

\* x.txt was added as "hello", committed and then edited to "world".
ScenarioDone ==
    /\ Initialized
    /\ repo.commits # <<>>
    /\ fs["x.txt"] = "world"

\* C14 (as claimed): at the end of the scenario diff x.txt reports x.txt
\* changed, diff without a target reports x.txt changed too, and status
\* reports an empty staging area.
C14_ScenarioAsClaimed ==
    ScenarioDone =>
        /\ args = [command |-> "diff", argv |-> <<"x.txt">>] =>
              out = <<"File x.txt has changed since it was staged.">>
        /\ args = [command |-> "diff", argv |-> <<>>] =>
              \E k \in DOMAIN out : out[k] = "x.txt has changed."
        /\ args = [command |-> "status", argv |-> <<>>] =>
              out = <<"On branch main", "No changes to be committed.">>

\* C14 (amended): at the end of the scenario the commit has emptied the
\* staging area, so diff x.txt reports that x.txt is not staged, diff without
\* a target prints its heading and no path, and status reports an empty
\* staging area.
C14_ScenarioReports ==
    ScenarioDone =>
        /\ repo.staging_area = <<>>
        /\ args = [command |-> "diff", argv |-> <<"x.txt">>] =>
              out = <<"File x.txt is not staged.">>
        /\ args = [command |-> "diff", argv |-> <<>>] =>
              out = <<"Comparing current files to staging area:">>
        /\ args = [command |-> "status", argv |-> <<>>] =>
              out = <<"On branch main", "No changes to be committed.">>

\* diff x.txt just ran at the end of the scenario; the one commit holds the
\* digest of "hello".
C14_Witness ==
    /\ ScenarioDone
    /\ args = [command |-> "diff", argv |-> <<"x.txt">>]
    /\ Len(repo.commits) = 1
    /\ repo.commits[1][2].message = "first"
    /\ repo.commits[1][2].changes = << <<"x.txt", sha1_content("hello")>> >>

\* C12 (as claimed): whatever happened to the saves so far, the file is
\* missing or holds a whole document: no load finds a truncated or partly
\* written one, and a failed save has left the previous document in place.
C12_SaveIsAtomic == stateFile.kind \in {"none", "json"}

\* C20: once the storage directory exists without a loadable document, every
\* command leaves the directory and the file as they are: init reports
\* already-initialized and writes nothing, every other command fails at its
\* load.
C20_BrokenInitIsPermanent ==
    [][ (dirExists /\ ~Initialized) =>
            /\ dirExists'
            /\ stateFile' = stateFile
            /\ Ran("init") => out' = <<"Repository already initialized.">>
            /\ args'.command \in LoadingCommands => out' = <<Traceback(load_error)>>
      ]_vars

\* The save of the first init failed before the file was created, and a
\* later init just reported already-initialized.
C20_Witness ==
    /\ dirExists
    /\ stateFile.kind = "none"
    /\ args.command = "init"
    /\ out = <<"Repository already initialized.">>

\* p made the latest save.
LastSaver(p) == inflight[p].seq > 0 /\ inflight[p].seq = saves

\* q saved, and p loaded before that save.
Unseen(p, q) == q # p /\ inflight[q].seq > 0 /\ q \notin inflight[p].seen

\* The commits q's invocation created and the paths it newly staged.
NewCommits(q) ==
    dict_keys(inflight[q].result.commits) \ dict_keys(inflight[q].repo_data.commits)

NewStaged(q) ==
    dict_keys(inflight[q].result.staging_area)
        \ dict_keys(inflight[q].repo_data.staging_area)

\* The paths on p's command line, if p is an add.
Added(p) ==
    IF inflight[p].command = "add"
    THEN {inflight[p].argv[i] : i \in DOMAIN inflight[p].argv}
    ELSE {}

\* C17: the persisted document is the one the latest saver derived from its
\* own load, whatever was saved in between.  Of an invocation that saved after
\* that load, the commit it created is not in the document, and a path it
\* newly staged is in it only if the latest saver had loaded it staged or
\* staged it itself.
C17_LastSaveWins ==
    \A p \in Procs :
        LastSaver(p) =>
            /\ repo = inflight[p].result
            /\ inflight[p].command = "add" =>
                    repo = add_loop(inflight[p].repo_data, inflight[p].argv, <<>>).repo_data
            /\ inflight[p].command = "checkout" =>
                    repo = checkout_data(inflight[p].repo_data, inflight[p].argv[1])
            /\ \A q \in Procs :
                    Unseen(p, q) =>
                        /\ NewCommits(q) \cap dict_keys(repo.commits) = {}
                        /\ NewStaged(q) \cap dict_keys(repo.staging_area)
                               \subseteq dict_keys(inflight[p].repo_data.staging_area)
                                            \cup Added(p)

\* Both invocations are over; one was a commit that reported the commit it
\* created, the other saved after it from a load made before it, and the
\* persisted document has no commit at all.
C17_Witness ==
    /\ \A p \in Procs : inflight[p].pc = "done"
    /\ \E p, q \in Procs :
          /\ LastSaver(p)
          /\ Unseen(p, q)
          /\ inflight[q].command = "commit"
          /\ inflight[q].out = <<short_hash(commit_hash_of("first", 1)) \o " first">>
          /\ repo.commits = <<>>

\* C18: whatever the interleaving of the loads and saves, the persisted
\* document is whole, every identifier in a branch's sequence is a key of
\* commits, and the current branch is a key of branches.
C18_ConcurrentStructure ==
    /\ Initialized
    /\ \A i \in DOMAIN repo.branches :
          \A j \in DOMAIN repo.branches[i][2] :
              dict_has(repo.commits, repo.branches[i][2][j])
    /\ dict_has(repo.branches, repo.current_branch)

\* A commit was persisted on main, and a later save from a load made before it
\* has taken it out of commits and of main again: commits did not only grow.
C18_Witness ==
    \E p, q \in Procs :
        /\ LastSaver(p)
        /\ Unseen(p, q)
        /\ inflight[q].seq < inflight[p].seq
        /\ dict_has(inflight[q].result.commits, commit_hash_of("first", 1))
        /\ dict_get(inflight[q].result.branches, "main") = <<commit_hash_of("first", 1)>>
        /\ ~dict_has(repo.commits, commit_hash_of("first", 1))
        /\ dict_get(repo.branches, "main") = <<>>

====
